---- MODULE Spec2Model ----
(***************************************************************************)
(* State-machine model of the User & Profile service (src/main.py).        *)
(* The four module-level dictionaries are the state; every request        *)
(* handler is one atomic action (single-threaded request handling).       *)
(* Handlers are operators from a store record `db` and the request        *)
(* arguments to the new store record and the HTTP response.               *)
(***************************************************************************)
EXTENDS Integers, Sequences, FiniteSets, TLC

(***************************************************************************)
(* Bounds of the model.                                                    *)
(***************************************************************************)
\* number of user ids ever issued
MaxUsers == 2
\* number of profile ids ever issued
MaxProfiles == 2

\* number of keys in the body of a PATCH request or in the query of a GET
MaxKeys == 2

UserIds == 1..MaxUsers
ProfileIds == 1..MaxProfiles

\* `None` as the default of exclude_id
None == 0

(***************************************************************************)
(* Input values.  Strings that the code lower-cases are tuples of          *)
(* characters, so that str.lower() is computed character by character.     *)
(* Every input string is non-empty (it passed request validation).         *)
(***************************************************************************)
Names == {"Ann", "Bob"}
Emails == {<<"a", "@", "x">>, <<"A", "@", "X">>, <<"b", "@", "x">>}
Phones == {<<"1">>, <<"2">>}
Tiers == {"FREE", "PRO"}
Passwords == {"pw1", "pw2"}
Usernames == {<<"a", "l">>, <<"A", "L">>, <<"b", "o">>}
DisplayNames == {"d1", "d2"}

LowerChar(c) ==
    CASE c = "A" -> "a"
      [] c = "B" -> "b"
      [] c = "L" -> "l"
      [] c = "O" -> "o"
      [] c = "X" -> "x"
      [] OTHER -> c

\* str.lower()
Lower(s) == [i \in DOMAIN s |-> LowerChar(s[i])]

(***************************************************************************)
(* Python dictionaries as functions.                                       *)
(***************************************************************************)
EmptyDict == [k \in {} |-> None]

\* d[k] = v
Put(d, k, v) == [x \in DOMAIN d \cup {k} |-> IF x = k THEN v ELSE d[x]]

\* d.pop(k, None)
Pop(d, k) == [x \in DOMAIN d \ {k} |-> d[x]]

\* d.get(k): the value, or a falsy value when the key is absent
Get(d, k) == IF k \in DOMAIN d THEN d[k] ELSE <<>>

\* truth value of a string (or of None)
Truthy(v) == v # <<>>

\* current.update(changes)
Update(current, changes) ==
    [f \in DOMAIN current \cup DOMAIN changes |->
        IF f \in DOMAIN changes THEN changes[f] ELSE current[f]]

\* model_dump(exclude=...): the dictionary without the excluded keys
Exclude(d, keys) == [f \in DOMAIN d \ keys |-> d[f]]

\* the smallest element of a non-empty set of integers
Min(S) == CHOOSE x \in S : \A y \in S : x <= y

\* list(d.values()): the values in insertion order; ids are issued in
\* increasing order and an assignment to an existing key keeps its place
RECURSIVE Values(_)
Values(d) ==
    IF DOMAIN d = {} THEN <<>>
    ELSE LET k == Min(DOMAIN d) IN <<d[k]>> \o Values(Pop(d, k))

(***************************************************************************)
(* Pydantic models (models/user.py, models/profile.py).                    *)
(***************************************************************************)
UserReadFields == {"id", "name", "email", "phone", "membership_tier", "created_at"}
UserUpdateFields == {"name", "email", "phone", "membership_tier", "new_password"}
ProfileReadFields == {"id", "user_id", "username", "display_name", "created_at"}
ProfileUpdateFields == {"username", "display_name"}

\* UserRead(**d): id and created_at default to fresh values when absent
UserRead(d, fresh_id, now) ==
    [f \in UserReadFields |->
        IF f \in DOMAIN d THEN d[f]
        ELSE IF f = "id" THEN fresh_id ELSE now]

\* ProfileRead(**d)
ProfileRead(d, fresh_id, now) ==
    [f \in ProfileReadFields |->
        IF f \in DOMAIN d THEN d[f]
        ELSE IF f = "id" THEN fresh_id ELSE now]

\* UserUpdate parsed from a request body: unknown keys are dropped
UserUpdate(body) == [f \in DOMAIN body \cap UserUpdateFields |-> body[f]]

\* ProfileUpdate parsed from a request body: unknown keys are dropped
ProfileUpdate(body) == [f \in DOMAIN body \cap ProfileUpdateFields |-> body[f]]

(***************************************************************************)
(* Responses.                                                              *)
(***************************************************************************)
Response(status, detail, body) == [status |-> status, detail |-> detail, body |-> body]

\* raise HTTPException(status_code=..., detail=...): the stores stay as they are
HTTPException(db, status, detail) == [db |-> db, resp |-> Response(status, detail, <<>>)]

(***************************************************************************)
(* Helper functions.                                                       *)
(***************************************************************************)
\* _email_exists comparing the emails as written, without lower()
_email_exists_CaseSensitive(users_, email, exclude_id) ==
    \E k \in DOMAIN users_ :
        /\ users_[k].email = email
        /\ (exclude_id = None \/ users_[k].id # exclude_id)

\* _email_exists with no record left out of the scan
_email_exists_NoExclude(users_, email, exclude_id) ==
    LET e == Lower(email) IN
    \E k \in DOMAIN users_ : Lower(users_[k].email) = e

_email_exists(users_, email, exclude_id) ==
    LET e == Lower(email) IN
    \E k \in DOMAIN users_ :
        /\ Lower(users_[k].email) = e
        /\ (exclude_id = None \/ users_[k].id # exclude_id)

_phone_exists(users_, phone, exclude_id) ==
    \E k \in DOMAIN users_ :
        /\ users_[k].phone = phone
        /\ (exclude_id = None \/ users_[k].id # exclude_id)

\* _username_exists finding no username taken
_username_exists_Never(profiles_, username, exclude_id) == FALSE

\* _username_exists comparing the usernames as written, without lower()
_username_exists_CaseSensitive(profiles_, username, exclude_id) ==
    \E pid \in DOMAIN profiles_ :
        /\ profiles_[pid].username = username
        /\ (exclude_id = None \/ pid # exclude_id)

_username_exists(profiles_, username, exclude_id) ==
    LET target == Lower(username) IN
    \E pid \in DOMAIN profiles_ :
        /\ Lower(profiles_[pid].username) = target
        /\ (exclude_id = None \/ pid # exclude_id)

\* _assert_user_exists that never raises
_assert_user_exists_Never(db, user_id) == TRUE

\* _assert_user_has_no_profile that never raises
_assert_user_has_no_profile_Never(db, user_id) == TRUE

\* TRUE when the assertion passes
_assert_user_exists(db, user_id) == user_id \in DOMAIN db.users

\* TRUE when the assertion passes
_assert_user_has_no_profile(db, user_id) == user_id \notin DOMAIN db.profiles_by_user

\* the four in-memory stores as one record
Stores(u, s, p, pu) ==
    [users |-> u, user_secrets |-> s, profiles |-> p, profiles_by_user |-> pu]

(***************************************************************************)
(* Users CRUD.                                                             *)
(***************************************************************************)
\* create_user answering with the password among the user's fields
create_user_EchoesPassword(db, payload, fresh_id, now) ==
    IF _email_exists(db.users, payload.email, None)
    THEN HTTPException(db, 400, "Email already exists")
    ELSE IF _phone_exists(db.users, payload.phone, None)
    THEN HTTPException(db, 400, "Phone already exists")
    ELSE LET user == UserRead(Exclude(payload, {"password"}), fresh_id, now) IN
         [db |-> [db EXCEPT !.users = Put(db.users, user.id, user),
                            !.user_secrets = Put(db.user_secrets, user.id,
                                                 [password |-> payload.password])],
          resp |-> Response(201, "", <<Put(user, "password", payload.password)>>)]

create_user(db, payload, fresh_id, now) ==
    IF _email_exists(db.users, payload.email, None)
    THEN HTTPException(db, 400, "Email already exists")
    ELSE IF _phone_exists(db.users, payload.phone, None)
    THEN HTTPException(db, 400, "Phone already exists")
    ELSE LET user == UserRead(Exclude(payload, {"password"}), fresh_id, now) IN
         [db |-> [db EXCEPT !.users = Put(db.users, user.id, user),
                            !.user_secrets = Put(db.user_secrets, user.id,
                                                 [password |-> payload.password])],
          resp |-> Response(201, "", <<user>>)]

\* create_user from the construction of the record on: the lines after the
\* two uniqueness checks
create_user_write(db, payload, fresh_id, now) ==
    LET user == UserRead(Exclude(payload, {"password"}), fresh_id, now) IN
    [db |-> [db EXCEPT !.users = Put(db.users, user.id, user),
                       !.user_secrets = Put(db.user_secrets, user.id,
                                            [password |-> payload.password])],
     resp |-> Response(201, "", <<user>>)]

\* list_users comparing the emails as written, without lower()
list_users_EmailAsWritten(db, filters) ==
    LET ByName(u) == u.name = filters.name
        ByEmail(u) == u.email = filters.email
        ByPhone(u) == u.phone = filters.phone
        ByTier(u) == u.membership_tier = filters.membership_tier
        r0 == Values(db.users)
        r1 == IF "name" \in DOMAIN filters THEN SelectSeq(r0, ByName) ELSE r0
        r2 == IF "email" \in DOMAIN filters THEN SelectSeq(r1, ByEmail) ELSE r1
        r3 == IF "phone" \in DOMAIN filters THEN SelectSeq(r2, ByPhone) ELSE r2
        r4 == IF "membership_tier" \in DOMAIN filters THEN SelectSeq(r3, ByTier) ELSE r3
    IN [db |-> db, resp |-> Response(200, "", r4)]

list_users(db, filters) ==
    LET ByName(u) == u.name = filters.name
        ByEmail(u) == Lower(u.email) = Lower(filters.email)
        ByPhone(u) == u.phone = filters.phone
        ByTier(u) == u.membership_tier = filters.membership_tier
        r0 == Values(db.users)
        r1 == IF "name" \in DOMAIN filters THEN SelectSeq(r0, ByName) ELSE r0
        r2 == IF "email" \in DOMAIN filters THEN SelectSeq(r1, ByEmail) ELSE r1
        r3 == IF "phone" \in DOMAIN filters THEN SelectSeq(r2, ByPhone) ELSE r2
        r4 == IF "membership_tier" \in DOMAIN filters THEN SelectSeq(r3, ByTier) ELSE r3
    IN [db |-> db, resp |-> Response(200, "", r4)]

get_user(db, user_id) ==
    IF user_id \notin DOMAIN db.users
    THEN HTTPException(db, 404, "User not found")
    ELSE [db |-> db, resp |-> Response(200, "", <<db.users[user_id]>>)]

\* update_user that rebuilds the record without its stored timestamp, so
\* that UserRead stamps it anew
update_user_NewTimestamp(db, user_id, body) ==
    IF user_id \notin DOMAIN db.users
    THEN HTTPException(db, 404, "User not found")
    ELSE
    LET patch == UserUpdate(body)
        current == db.users[user_id]
        changes == Exclude(patch, {"new_password"})
        new_email == Get(changes, "email")
        new_phone == Get(changes, "phone")
    IN
    IF Truthy(new_email) /\ _email_exists(db.users, new_email, user_id)
    THEN HTTPException(db, 400, "Email already exists")
    ELSE IF Truthy(new_phone) /\ _phone_exists(db.users, new_phone, user_id)
    THEN HTTPException(db, 400, "Phone already exists")
    ELSE
    LET updated == UserRead(Exclude(Update(current, changes), {"created_at"}),
                            None, current.created_at + 1)
        users1 == Put(db.users, user_id, updated)
        secrets1 == IF "new_password" \in DOMAIN patch
                    THEN Put(db.user_secrets, user_id, [password |-> patch.new_password])
                    ELSE db.user_secrets
    IN [db |-> [db EXCEPT !.users = users1, !.user_secrets = secrets1],
        resp |-> Response(200, "", <<users1[user_id]>>)]

\* `body` is the request body; the framework parses it into a UserUpdate
\* before the handler's own code runs
\* update_user storing the new password before it checks the email and the
\* phone
update_user_StoresPasswordFirst(db, user_id, body) ==
    IF user_id \notin DOMAIN db.users
    THEN HTTPException(db, 404, "User not found")
    ELSE
    LET patch == UserUpdate(body)
        current == db.users[user_id]
        changes == Exclude(patch, {"new_password"})
        new_email == Get(changes, "email")
        new_phone == Get(changes, "phone")
        secrets1 == IF "new_password" \in DOMAIN patch
                    THEN Put(db.user_secrets, user_id, [password |-> patch.new_password])
                    ELSE db.user_secrets
        db1 == [db EXCEPT !.user_secrets = secrets1]
    IN
    IF Truthy(new_email) /\ _email_exists(db.users, new_email, user_id)
    THEN HTTPException(db1, 400, "Email already exists")
    ELSE IF Truthy(new_phone) /\ _phone_exists(db.users, new_phone, user_id)
    THEN HTTPException(db1, 400, "Phone already exists")
    ELSE
    LET updated == UserRead(Update(current, changes), None, None)
        users1 == Put(db.users, user_id, updated)
    IN [db |-> [db1 EXCEPT !.users = users1],
        resp |-> Response(200, "", <<users1[user_id]>>)]

\* update_user checking the email and the phone before looking the user up
update_user_ValidatesFirst(db, user_id, body) ==
    LET patch == UserUpdate(body)
        changes == Exclude(patch, {"new_password"})
        new_email == Get(changes, "email")
        new_phone == Get(changes, "phone")
    IN
    IF Truthy(new_email) /\ _email_exists(db.users, new_email, user_id)
    THEN HTTPException(db, 400, "Email already exists")
    ELSE IF Truthy(new_phone) /\ _phone_exists(db.users, new_phone, user_id)
    THEN HTTPException(db, 400, "Phone already exists")
    ELSE IF user_id \notin DOMAIN db.users
    THEN HTTPException(db, 404, "User not found")
    ELSE
    LET current == db.users[user_id]
        updated == UserRead(Update(current, changes), None, None)
        users1 == Put(db.users, user_id, updated)
        secrets1 == IF "new_password" \in DOMAIN patch
                    THEN Put(db.user_secrets, user_id, [password |-> patch.new_password])
                    ELSE db.user_secrets
    IN [db |-> [db EXCEPT !.users = users1, !.user_secrets = secrets1],
        resp |-> Response(200, "", <<users1[user_id]>>)]

update_user(db, user_id, body) ==
    IF user_id \notin DOMAIN db.users
    THEN HTTPException(db, 404, "User not found")
    ELSE
    LET patch == UserUpdate(body)
        current == db.users[user_id]
        changes == Exclude(patch, {"new_password"})
        new_email == Get(changes, "email")
        new_phone == Get(changes, "phone")
    IN
    IF Truthy(new_email) /\ _email_exists(db.users, new_email, user_id)
    THEN HTTPException(db, 400, "Email already exists")
    ELSE IF Truthy(new_phone) /\ _phone_exists(db.users, new_phone, user_id)
    THEN HTTPException(db, 400, "Phone already exists")
    ELSE
    LET updated == UserRead(Update(current, changes), None, None)
        users1 == Put(db.users, user_id, updated)
        secrets1 == IF "new_password" \in DOMAIN patch
                    THEN Put(db.user_secrets, user_id, [password |-> patch.new_password])
                    ELSE db.user_secrets
    IN [db |-> [db EXCEPT !.users = users1, !.user_secrets = secrets1],
        resp |-> Response(200, "", <<users1[user_id]>>)]

\* delete_user that removes the user and leaves its secret record
delete_user_KeepsSecret(db, user_id) ==
    IF user_id \notin DOMAIN db.users
    THEN HTTPException(db, 404, "User not found")
    ELSE [db |-> [db EXCEPT !.users = Pop(db.users, user_id)],
          resp |-> Response(204, "", <<>>)]

\* delete_user that removes the secret record only
delete_user_KeepsUser(db, user_id) ==
    IF user_id \notin DOMAIN db.users
    THEN HTTPException(db, 404, "User not found")
    ELSE [db |-> [db EXCEPT !.user_secrets = Pop(db.user_secrets, user_id)],
          resp |-> Response(204, "", <<>>)]

\* delete_user that also deletes the profile the user owns and its mapping
delete_user_Cascades(db, user_id) ==
    IF user_id \notin DOMAIN db.users
    THEN HTTPException(db, 404, "User not found")
    ELSE LET owned == {pid \in DOMAIN db.profiles : db.profiles[pid].user_id = user_id}
         IN [db |-> [db EXCEPT !.users = Pop(db.users, user_id),
                               !.user_secrets = Pop(db.user_secrets, user_id),
                               !.profiles = [pid \in DOMAIN db.profiles \ owned |->
                                                db.profiles[pid]],
                               !.profiles_by_user = Pop(db.profiles_by_user, user_id)],
             resp |-> Response(204, "", <<>>)]

\* delete_user that also deletes the user's entry of profiles_by_user
delete_user_PopsMapping(db, user_id) ==
    IF user_id \notin DOMAIN db.users
    THEN HTTPException(db, 404, "User not found")
    ELSE [db |-> [db EXCEPT !.users = Pop(db.users, user_id),
                            !.user_secrets = Pop(db.user_secrets, user_id),
                            !.profiles_by_user = Pop(db.profiles_by_user, user_id)],
          resp |-> Response(204, "", <<>>)]

delete_user(db, user_id) ==
    IF user_id \notin DOMAIN db.users
    THEN HTTPException(db, 404, "User not found")
    ELSE [db |-> [db EXCEPT !.users = Pop(db.users, user_id),
                            !.user_secrets = Pop(db.user_secrets, user_id)],
          resp |-> Response(204, "", <<>>)]

(***************************************************************************)
(* Profile CRUD.                                                           *)
(***************************************************************************)
\* create_profile that records the owner in profiles_by_user before it
\* checks the username
create_profile_IndexesBeforeUsernameCheck(db, payload, fresh_id, now) ==
    IF ~_assert_user_exists(db, payload.user_id)
    THEN HTTPException(db, 400, "User does not exist")
    ELSE IF ~_assert_user_has_no_profile(db, payload.user_id)
    THEN HTTPException(db, 400, "User already has a profile")
    ELSE
    LET indexed == [db EXCEPT !.profiles_by_user =
                        Put(db.profiles_by_user, payload.user_id, fresh_id)]
    IN
    IF _username_exists(db.profiles, payload.username, None)
    THEN HTTPException(indexed, 400, "Username already exists")
    ELSE LET profile == ProfileRead(payload, fresh_id, now) IN
         [db |-> [indexed EXCEPT !.profiles = Put(db.profiles, profile.id, profile)],
          resp |-> Response(201, "", <<profile>>)]

\* create_profile that stores the profile and leaves profiles_by_user as
\* it is
create_profile_SkipsIndex(db, payload, fresh_id, now) ==
    IF ~_assert_user_exists(db, payload.user_id)
    THEN HTTPException(db, 400, "User does not exist")
    ELSE IF ~_assert_user_has_no_profile(db, payload.user_id)
    THEN HTTPException(db, 400, "User already has a profile")
    ELSE IF _username_exists(db.profiles, payload.username, None)
    THEN HTTPException(db, 400, "Username already exists")
    ELSE LET profile == ProfileRead(payload, fresh_id, now) IN
         [db |-> [db EXCEPT !.profiles = Put(db.profiles, profile.id, profile)],
          resp |-> Response(201, "", <<profile>>)]

create_profile(db, payload, fresh_id, now) ==
    IF ~_assert_user_exists(db, payload.user_id)
    THEN HTTPException(db, 400, "User does not exist")
    ELSE IF ~_assert_user_has_no_profile(db, payload.user_id)
    THEN HTTPException(db, 400, "User already has a profile")
    ELSE IF _username_exists(db.profiles, payload.username, None)
    THEN HTTPException(db, 400, "Username already exists")
    ELSE LET profile == ProfileRead(payload, fresh_id, now) IN
         [db |-> [db EXCEPT !.profiles = Put(db.profiles, profile.id, profile),
                            !.profiles_by_user =
                                Put(db.profiles_by_user, profile.user_id, profile.id)],
          resp |-> Response(201, "", <<profile>>)]

\* create_profile from the construction of the record on: the lines after
\* the two assertions and the username check
create_profile_write(db, payload, fresh_id, now) ==
    LET profile == ProfileRead(payload, fresh_id, now) IN
    [db |-> [db EXCEPT !.profiles = Put(db.profiles, profile.id, profile),
                       !.profiles_by_user =
                           Put(db.profiles_by_user, profile.user_id, profile.id)],
     resp |-> Response(201, "", <<profile>>)]

list_profiles(db, filters) ==
    LET ByUser(p) == p.user_id = filters.user_id
        ByUsername(p) == Lower(p.username) = Lower(filters.username)
        r0 == Values(db.profiles)
        r1 == IF "user_id" \in DOMAIN filters THEN SelectSeq(r0, ByUser) ELSE r0
        r2 == IF "username" \in DOMAIN filters THEN SelectSeq(r1, ByUsername) ELSE r1
    IN [db |-> db, resp |-> Response(200, "", r2)]

get_profile(db, profile_id) ==
    IF profile_id \notin DOMAIN db.profiles
    THEN HTTPException(db, 404, "Profile not found")
    ELSE [db |-> db, resp |-> Response(200, "", <<db.profiles[profile_id]>>)]

\* update_profile that merges the request body as sent, without parsing it
\* into a ProfileUpdate
update_profile_MergesBody(db, profile_id, body) ==
    IF profile_id \notin DOMAIN db.profiles
    THEN HTTPException(db, 404, "Profile not found")
    ELSE
    LET current == db.profiles[profile_id]
        changes == body
        new_username == Get(changes, "username")
    IN
    IF Truthy(new_username) /\ _username_exists(db.profiles, new_username, profile_id)
    THEN HTTPException(db, 400, "Username already exists")
    ELSE
    LET updated == ProfileRead(Update(current, changes), None, None) IN
    [db |-> [db EXCEPT !.profiles = Put(db.profiles, profile_id, updated)],
     resp |-> Response(200, "", <<updated>>)]

\* `body` is the request body; the framework parses it into a ProfileUpdate
\* before the handler's own code runs
update_profile(db, profile_id, body) ==
    IF profile_id \notin DOMAIN db.profiles
    THEN HTTPException(db, 404, "Profile not found")
    ELSE
    LET patch == ProfileUpdate(body)
        current == db.profiles[profile_id]
        changes == patch
        new_username == Get(changes, "username")
    IN
    IF Truthy(new_username) /\ _username_exists(db.profiles, new_username, profile_id)
    THEN HTTPException(db, 400, "Username already exists")
    ELSE
    LET updated == ProfileRead(Update(current, changes), None, None) IN
    [db |-> [db EXCEPT !.profiles = Put(db.profiles, profile_id, updated)],
     resp |-> Response(200, "", <<updated>>)]

\* delete_profile that removes the record and leaves the owner's entry in
\* profiles_by_user
delete_profile_KeepsMapping(db, profile_id) ==
    IF profile_id \notin DOMAIN db.profiles
    THEN HTTPException(db, 404, "Profile not found")
    ELSE [db |-> [db EXCEPT !.profiles = Pop(db.profiles, profile_id)],
          resp |-> Response(204, "", <<>>)]

delete_profile(db, profile_id) ==
    IF profile_id \notin DOMAIN db.profiles
    THEN HTTPException(db, 404, "Profile not found")
    ELSE LET prof == db.profiles[profile_id] IN
         [db |-> [db EXCEPT !.profiles = Pop(db.profiles, profile_id),
                            !.profiles_by_user = Pop(db.profiles_by_user, prof.user_id)],
          resp |-> Response(204, "", <<>>)]

(***************************************************************************)
(* The state.                                                              *)
(***************************************************************************)
VARIABLES
    users,            \* user id -> UserRead
    user_secrets,     \* user id -> [password]
    profiles,         \* profile id -> ProfileRead
    profiles_by_user, \* user id -> profile id
    issued_users,     \* number of user ids generated so far
    issued_profiles,  \* number of profile ids generated so far
    req,              \* the last request
    resp,             \* the response to the last request
    deleted,          \* ids of the users whose delete_user succeeded
    inflight,         \* per worker, the create request between its checks and its write
    exclusive         \* whether a request excludes every other from check to write

vars == <<users, user_secrets, profiles, profiles_by_user,
          issued_users, issued_profiles, req, resp, deleted, inflight, exclusive>>

stores == <<users, user_secrets, profiles, profiles_by_user>>

Db == Stores(users, user_secrets, profiles, profiles_by_user)

\* datetime.utcnow() as a logical clock: the timestamp of the n-th creation
\* in a store is n
Now(issued) == issued + 1

\* a request as the claims see it: the handler, the id in its path and the
\* user_id in its body (None when it has none)
Request(op, id, user_id) == [op |-> op, id |-> id, user_id |-> user_id]

\* body.get("user_id")
UserIdOf(body) == IF "user_id" \in DOMAIN body THEN body.user_id ELSE None

\* the dictionaries with keys in `fields`, each key absent or bound to one
\* of its values
RECURSIVE DictsOver(_, _)
DictsOver(S, values) ==
    IF S = {} THEN {EmptyDict}
    ELSE LET f == CHOOSE x \in S : TRUE IN
         {Put(d, f, v) : d \in DictsOver(S \ {f}, values), v \in values[f]}

Dicts(fields, values) ==
    UNION {DictsOver(S, values) : S \in {T \in SUBSET fields : Cardinality(T) <= MaxKeys}}

UserValues ==
    [name |-> Names, email |-> Emails, phone |-> Phones,
     membership_tier |-> Tiers, new_password |-> Passwords]

ProfileValues ==
    [user_id |-> UserIds, username |-> Usernames, display_name |-> DisplayNames]

\* request bodies of POST /users and POST /profiles
UserCreates ==
    [name : Names, email : Emails, phone : Phones,
     membership_tier : Tiers, password : Passwords]

ProfileCreates ==
    [user_id : UserIds, username : Usernames, display_name : DisplayNames]

\* request bodies of PATCH /users/{id}
UserPatches == Dicts(UserUpdateFields, UserValues)

\* request bodies of PATCH /profiles/{id}: a client may send user_id too
ProfilePatches == Dicts(ProfileUpdateFields \cup {"user_id"}, ProfileValues)

\* query filters of GET /users and GET /profiles
UserFilters == Dicts({"name", "email", "phone", "membership_tier"}, UserValues)
ProfileFilters == Dicts({"user_id", "username"}, ProfileValues)

\* the requests of the whole-service specification: every user is "Ann",
\* "FREE", "pw1" with a lower-case email, every profile has display name
\* "d1"; emails, phones, user ids and usernames vary
ServiceUserValues ==
    [name |-> {"Ann"}, email |-> {e \in Emails : e = Lower(e)}, phone |-> Phones,
     membership_tier |-> {"FREE"}, new_password |-> {"pw1"}]

ServiceProfileValues ==
    [user_id |-> UserIds, username |-> Usernames, display_name |-> {"d1"}]

ServiceUserCreates ==
    {c \in UserCreates :
        /\ c.password = "pw1"
        /\ \A f \in DOMAIN c \ {"password"} : c[f] \in ServiceUserValues[f]}

ServiceUserPatches == Dicts({"email", "phone"}, ServiceUserValues)

ServiceUserFilters == Dicts({"email", "phone"}, ServiceUserValues)

ServiceProfileCreates == {c \in ProfileCreates : c.display_name = "d1"}

ServiceProfilePatches ==
    Dicts({"username", "user_id"}, ServiceProfileValues) \cup {[display_name |-> "d1"]}

\* the workers that serve requests, and a worker with no request in hand
Workers == {"w1", "w2"}
Idle == [op |-> "idle", payload |-> EmptyDict]

Init ==
    /\ users = EmptyDict
    /\ user_secrets = EmptyDict
    /\ profiles = EmptyDict
    /\ profiles_by_user = EmptyDict
    /\ issued_users = 0
    /\ issued_profiles = 0
    /\ req = Request("start", None, None)
    /\ resp = Response(200, "", <<>>)
    /\ deleted = {}
    /\ inflight = [w \in Workers |-> Idle]
    /\ exclusive = TRUE

\* the stores and the response become those of the handler's result
Respond(r) ==
    /\ users' = r.db.users
    /\ user_secrets' = r.db.user_secrets
    /\ profiles' = r.db.profiles
    /\ profiles_by_user' = r.db.profiles_by_user
    /\ resp' = r.resp

\* a handler that runs from its first line to its last with no other
\* request in between
Apply(r) ==
    /\ Respond(r)
    /\ UNCHANGED <<inflight, exclusive>>

(***************************************************************************)
(* One action per request handler; `payloads`, `bodies` and `queries` are  *)
(* the inputs a specification draws the request from.                      *)
(***************************************************************************)
CreateUser(payloads) ==
    /\ \E payload \in payloads :
        LET r == create_user(Db, payload, issued_users + 1, Now(issued_users)) IN
        /\ r.resp.status = 201 => issued_users < MaxUsers
        /\ Apply(r)
        /\ req' = Request("create_user", None, None)
        /\ issued_users' = IF r.resp.status = 201 THEN issued_users + 1 ELSE issued_users
    /\ UNCHANGED <<issued_profiles, deleted>>

ListUsers(queries) ==
    /\ \E filters \in queries :
        /\ Apply(list_users(Db, filters))
        /\ req' = Request("list_users", None, None)
    /\ UNCHANGED <<issued_users, issued_profiles, deleted>>

GetUser ==
    /\ \E user_id \in UserIds :
        /\ Apply(get_user(Db, user_id))
        /\ req' = Request("get_user", user_id, None)
    /\ UNCHANGED <<issued_users, issued_profiles, deleted>>

UpdateUser(bodies) ==
    /\ \E user_id \in UserIds, body \in bodies :
        /\ Apply(update_user(Db, user_id, body))
        /\ req' = Request("update_user", user_id, None)
    /\ UNCHANGED <<issued_users, issued_profiles, deleted>>

DeleteUser ==
    /\ \E user_id \in UserIds :
        LET r == delete_user(Db, user_id) IN
        /\ Apply(r)
        /\ req' = Request("delete_user", user_id, None)
        /\ deleted' = IF r.resp.status = 204 THEN deleted \cup {user_id} ELSE deleted
    /\ UNCHANGED <<issued_users, issued_profiles>>

CreateProfile(payloads) ==
    /\ \E payload \in payloads :
        LET r == create_profile(Db, payload, issued_profiles + 1, Now(issued_profiles)) IN
        /\ r.resp.status = 201 => issued_profiles < MaxProfiles
        /\ Apply(r)
        /\ req' = Request("create_profile", None, UserIdOf(payload))
        /\ issued_profiles' =
             IF r.resp.status = 201 THEN issued_profiles + 1 ELSE issued_profiles
    /\ UNCHANGED <<issued_users, deleted>>

ListProfiles(queries) ==
    /\ \E filters \in queries :
        /\ Apply(list_profiles(Db, filters))
        /\ req' = Request("list_profiles", None, None)
    /\ UNCHANGED <<issued_users, issued_profiles, deleted>>

GetProfile ==
    /\ \E profile_id \in ProfileIds :
        /\ Apply(get_profile(Db, profile_id))
        /\ req' = Request("get_profile", profile_id, None)
    /\ UNCHANGED <<issued_users, issued_profiles, deleted>>

UpdateProfile(bodies) ==
    /\ \E profile_id \in ProfileIds, body \in bodies :
        /\ Apply(update_profile(Db, profile_id, body))
        /\ req' = Request("update_profile", profile_id, UserIdOf(body))
    /\ UNCHANGED <<issued_users, issued_profiles, deleted>>

DeleteProfile ==
    /\ \E profile_id \in ProfileIds :
        /\ Apply(delete_profile(Db, profile_id))
        /\ req' = Request("delete_profile", profile_id, None)
    /\ UNCHANGED <<issued_users, issued_profiles, deleted>>

\* the whole service
Next ==
    \/ CreateUser(ServiceUserCreates)
    \/ ListUsers(ServiceUserFilters)
    \/ GetUser
    \/ UpdateUser(ServiceUserPatches)
    \/ DeleteUser
    \/ CreateProfile(ServiceProfileCreates)
    \/ ListProfiles(ProfileFilters)
    \/ GetProfile
    \/ UpdateProfile(ServiceProfilePatches)
    \/ DeleteProfile

Spec == Init /\ [][Next]_vars

\* the user store alone, with every field of a user varying
NextUsers ==
    \/ CreateUser(UserCreates)
    \/ ListUsers(UserFilters)
    \/ GetUser
    \/ UpdateUser(UserPatches)
    \/ DeleteUser

SpecUsers == Init /\ [][NextUsers]_vars

(***************************************************************************)
(* Concurrent creation.  The handlers are plain functions, which the       *)
(* framework runs on worker threads; a create handler is two steps here,   *)
(* its checks and then its write, and another worker's step may come       *)
(* between them unless requests exclude each other.                        *)
(***************************************************************************)
RaceUserCreates ==
    {c \in ServiceUserCreates :
        \/ c.email = <<"a", "@", "x">> /\ c.phone = <<"1">>
        \/ c.email = <<"b", "@", "x">> /\ c.phone = <<"2">>}

RaceProfileCreates ==
    {c \in ServiceProfileCreates : c.username = Lower(c.username)}

InFlight(op) == {w \in Workers : inflight[w].op = op}

\* with mutual exclusion a request starts only when no other is under way
Admitted(w) == exclusive => \A v \in Workers \ {w} : inflight[v].op = "idle"

InitRace ==
    /\ users = EmptyDict
    /\ user_secrets = EmptyDict
    /\ profiles = EmptyDict
    /\ profiles_by_user = EmptyDict
    /\ issued_users = 0
    /\ issued_profiles = 0
    /\ req = Request("start", None, None)
    /\ resp = Response(200, "", <<>>)
    /\ deleted = {}
    /\ inflight = [w \in Workers |-> Idle]
    /\ exclusive \in BOOLEAN

\* the checks of create_user: a rejection is answered at once, otherwise
\* the request goes on to its write
CheckCreateUser(w) ==
    /\ inflight[w].op = "idle"
    /\ Admitted(w)
    /\ \E payload \in RaceUserCreates :
        LET r == create_user(Db, payload, issued_users + 1, Now(issued_users)) IN
        IF r.resp.status = 201
        THEN /\ issued_users + Cardinality(InFlight("create_user")) < MaxUsers
             /\ inflight' = [inflight EXCEPT ![w] =
                                 [op |-> "create_user", payload |-> payload]]
             /\ UNCHANGED <<stores, req, resp, exclusive>>
        ELSE /\ Apply(r)
             /\ req' = Request("create_user", None, None)
    /\ UNCHANGED <<issued_users, issued_profiles, deleted>>

WriteCreateUser(w) ==
    /\ inflight[w].op = "create_user"
    /\ Respond(create_user_write(Db, inflight[w].payload,
                                 issued_users + 1, Now(issued_users)))
    /\ req' = Request("create_user", None, None)
    /\ issued_users' = issued_users + 1
    /\ inflight' = [inflight EXCEPT ![w] = Idle]
    /\ UNCHANGED <<issued_profiles, deleted, exclusive>>

CheckCreateProfile(w) ==
    /\ inflight[w].op = "idle"
    /\ Admitted(w)
    /\ \E payload \in RaceProfileCreates :
        LET r == create_profile(Db, payload, issued_profiles + 1, Now(issued_profiles)) IN
        IF r.resp.status = 201
        THEN /\ issued_profiles + Cardinality(InFlight("create_profile")) < MaxProfiles
             /\ inflight' = [inflight EXCEPT ![w] =
                                 [op |-> "create_profile", payload |-> payload]]
             /\ UNCHANGED <<stores, req, resp, exclusive>>
        ELSE /\ Apply(r)
             /\ req' = Request("create_profile", None, UserIdOf(payload))
    /\ UNCHANGED <<issued_users, issued_profiles, deleted>>

WriteCreateProfile(w) ==
    /\ inflight[w].op = "create_profile"
    /\ Respond(create_profile_write(Db, inflight[w].payload,
                                    issued_profiles + 1, Now(issued_profiles)))
    /\ req' = Request("create_profile", None, UserIdOf(inflight[w].payload))
    /\ issued_profiles' = issued_profiles + 1
    /\ inflight' = [inflight EXCEPT ![w] = Idle]
    /\ UNCHANGED <<issued_users, deleted, exclusive>>

NextRace ==
    \E w \in Workers :
        \/ CheckCreateUser(w)
        \/ WriteCreateUser(w)
        \/ CheckCreateProfile(w)
        \/ WriteCreateProfile(w)

SpecRace == InitRace /\ [][NextRace]_vars

(***************************************************************************)
(* Properties.                                                             *)
(***************************************************************************)
Live(d) == DOMAIN d

\* C1: in every state reachable by create_user, update_user and delete_user
\* requests, accepted or rejected, no two distinct live users have the same
\* email compared case-insensitively, and no two have the same phone.
C1_UniqueEmailAndPhone ==
    \A i, j \in Live(users) :
        i # j => /\ Lower(users[i].email) # Lower(users[j].email)
                 /\ users[i].phone # users[j].phone

\* two users are live and an update that would have duplicated an email
\* has just been rejected
C1_Witness ==
    /\ Cardinality(Live(users)) = 2
    /\ req.op = "update_user"
    /\ resp.status = 400
    /\ resp.detail = "Email already exists"

\* C2: in every reachable state no two distinct live profiles have the same
\* username compared case-insensitively.
C2_UniqueUsername ==
    \A p, q \in Live(profiles) :
        p # q => Lower(profiles[p].username) # Lower(profiles[q].username)

\* two profiles are live and an update that would have duplicated a
\* username has just been rejected
C2_Witness ==
    /\ Cardinality(Live(profiles)) = 2
    /\ req.op = "update_profile"
    /\ resp.status = 400
    /\ resp.detail = "Username already exists"

\* C3: in every state reachable by user and profile requests, each user id
\* is the user_id of at most one live profile.
C3_OneProfilePerUser ==
    \A p, q \in Live(profiles) :
        p # q => profiles[p].user_id # profiles[q].user_id

\* two profiles are live and a second profile for an owner has just been
\* refused
C3_Witness ==
    /\ Cardinality(Live(profiles)) = 2
    /\ req.op = "create_profile"
    /\ resp.status = 400
    /\ resp.detail = "User already has a profile"

\* C4: create_profile with a user_id that is not a key of users, or that
\* already owns a profile, answers 400 and leaves profiles and
\* profiles_by_user as they were.
C4_CreateProfileRejects ==
    [][(/\ req'.op = "create_profile"
        /\ \/ req'.user_id \notin DOMAIN users
           \/ req'.user_id \in DOMAIN profiles_by_user)
       => /\ resp'.status = 400
          /\ profiles' = profiles
          /\ profiles_by_user' = profiles_by_user]_vars

\* a create_profile naming an unknown user has just been refused while a
\* profile is stored
C4_Witness ==
    /\ req.op = "create_profile"
    /\ req.user_id \notin DOMAIN users
    /\ resp.status = 400
    /\ resp.detail = "User does not exist"
    /\ Live(profiles) # {}

\* C5: every request answered with 400 or 404 leaves the four stores
\* exactly as they were before the request.
C5_RejectionChangesNothing ==
    [][resp'.status \in {400, 404} => UNCHANGED stores]_vars

\* a create_profile for a user without a profile has just been refused for
\* its username
C5_Witness ==
    /\ req.op = "create_profile"
    /\ resp.status = 400
    /\ resp.detail = "Username already exists"
    /\ req.user_id \in Live(users)
    /\ req.user_id \notin DOMAIN profiles_by_user

\* what a successful update_user(user_id, body) may change, in the current state
UpdateUserFrame(user_id, body) ==
    LET r == update_user(Db, user_id, body) IN
    r.resp.status = 200 =>
        /\ DOMAIN r.db.users = DOMAIN users
        /\ \A k \in DOMAIN users \ {user_id} : r.db.users[k] = users[k]
        /\ \A f \in UserReadFields \ DOMAIN body :
               r.db.users[user_id][f] = users[user_id][f]
        /\ DOMAIN r.db.user_secrets = DOMAIN user_secrets
        /\ \A k \in DOMAIN user_secrets \ {user_id} :
               r.db.user_secrets[k] = user_secrets[k]
        /\ "new_password" \notin DOMAIN body => r.db.user_secrets = user_secrets
        /\ r.db.profiles = profiles
        /\ r.db.profiles_by_user = profiles_by_user

\* what a successful update_profile(profile_id, body) may change, in the
\* current state; the patch is the ProfileUpdate parsed from the body
UpdateProfileFrame(profile_id, body) ==
    LET r == update_profile(Db, profile_id, body) IN
    r.resp.status = 200 =>
        /\ DOMAIN r.db.profiles = DOMAIN profiles
        /\ \A k \in DOMAIN profiles \ {profile_id} : r.db.profiles[k] = profiles[k]
        /\ \A f \in ProfileReadFields \ DOMAIN ProfileUpdate(body) :
               r.db.profiles[profile_id][f] = profiles[profile_id][f]
        /\ r.db.users = users
        /\ r.db.user_secrets = user_secrets
        /\ r.db.profiles_by_user = profiles_by_user

\* the patches of C6: any set of keys, each key with a value that no
\* stored record of the whole-service specification has, but for the email,
\* the username and the user_id, which a stored record may have
FrameUserPatches ==
    UNION {DictsOver(S, [name |-> {"Bob"}, email |-> {<<"b", "@", "x">>},
                         phone |-> {<<"2">>}, membership_tier |-> {"PRO"},
                         new_password |-> {"pw2"}]) : S \in SUBSET UserUpdateFields}

FrameProfilePatches ==
    UNION {DictsOver(S, [username |-> {<<"b", "o">>}, display_name |-> {"d2"},
                         user_id |-> UserIds]) :
              S \in SUBSET (ProfileUpdateFields \cup {"user_id"})}

\* C6: in every reachable state, a successful update_user or update_profile
\* with any patch changes only the fields present in the patch: the absent
\* fields of the target (id and created_at among them) keep their values and
\* every other record of every store is unchanged.
C6_UpdateChangesOnlyPatchedFields ==
    /\ \A user_id \in Live(users), body \in FrameUserPatches :
           UpdateUserFrame(user_id, body)
    /\ \A profile_id \in Live(profiles), body \in FrameProfilePatches :
           UpdateProfileFrame(profile_id, body)

\* an update of one of two users has just succeeded, and a patch of the
\* name alone would now change that user's record
C6_Witness ==
    /\ req.op = "update_user"
    /\ resp.status = 200
    /\ Cardinality(Live(users)) = 2
    /\ Live(profiles) # {}
    /\ update_user(Db, req.id, [name |-> "Bob"]).db.users[req.id] # users[req.id]

\* C7: once delete_user(id) has succeeded, in every later state get_user(id)
\* answers 404 and list_users, whatever its filters, returns no user with
\* that id.
C7_DeletedUserStaysDeleted ==
    \A id \in deleted :
        /\ get_user(Db, id).resp.status = 404
        /\ \A filters \in UserFilters :
               LET found == list_users(Db, filters).resp.body IN
               \A i \in DOMAIN found : found[i].id # id

\* a user has been created after another one was deleted
C7_Witness ==
    /\ deleted # {}
    /\ req.op = "create_user"
    /\ resp.status = 201
    /\ \E id \in deleted : resp.body[1].id > id

\* C8: delete_user does not cascade to the profile record: a successful
\* delete_user leaves profiles unchanged, and a profile the deleted user
\* owned is still returned by get_profile with its user_id.
C8_DeleteUserKeepsProfile ==
    [][(req'.op = "delete_user" /\ resp'.status = 204)
       => /\ profiles' = profiles
          /\ \A pid \in DOMAIN profiles :
                 profiles[pid].user_id = req'.id =>
                     LET got == get_profile(Db', pid).resp IN
                     /\ got.status = 200
                     /\ got.body[1].user_id = req'.id]_vars

\* the owner of a live profile has just been deleted
C8_Witness ==
    /\ req.op = "delete_user"
    /\ resp.status = 204
    /\ \E pid \in Live(profiles) :
           /\ profiles[pid].user_id = req.id
           /\ profiles[pid].user_id \notin Live(users)

\* C9 as the specification states it: a successful delete_user(id) deletes
\* the secret record and the user's entry of profiles_by_user, and leaves
\* profiles as it was.
C9_DeleteUserDropsMapping ==
    [][(req'.op = "delete_user" /\ resp'.status = 204)
       => /\ req'.id \notin DOMAIN user_secrets'
          /\ req'.id \notin DOMAIN profiles_by_user'
          /\ profiles' = profiles]_vars

\* C9 as the code has it: a successful delete_user(id) deletes the user
\* and its secret record and leaves profiles_by_user and profiles as they
\* were, so the entry of a profile owner outlives the owner.
C9_DeleteUserKeepsMapping ==
    [][(req'.op = "delete_user" /\ resp'.status = 204)
       => /\ req'.id \notin DOMAIN users'
          /\ req'.id \notin DOMAIN user_secrets'
          /\ profiles_by_user' = profiles_by_user
          /\ profiles' = profiles]_vars

\* a user who owns a profile has just been deleted and is still a key of
\* profiles_by_user
C9_Witness ==
    /\ req.op = "delete_user"
    /\ resp.status = 204
    /\ req.id \in DOMAIN profiles_by_user
    /\ profiles_by_user[req.id] \in Live(profiles)

\* C10: a profile's user_id never changes: no request changes the user_id
\* of a stored profile, a profile is stored with the user_id of its
\* create_profile request, and an update_profile whose body names another
\* user_id is refused or leaves the user_id as it was.
C10_UserIdImmutable ==
    [][/\ \A pid \in DOMAIN profiles \cap DOMAIN profiles' :
              profiles'[pid].user_id = profiles[pid].user_id
       /\ \A pid \in DOMAIN profiles' \ DOMAIN profiles :
              /\ req'.op = "create_profile"
              /\ profiles'[pid].user_id = req'.user_id
       /\ (req'.op = "update_profile" /\ req'.user_id # None)
              => \/ resp'.status \in {400, 404}
                 \/ /\ resp'.status = 200
                    /\ profiles'[req'.id].user_id = profiles[req'.id].user_id]_vars

\* an update_profile whose body names another live user has just succeeded
C10_Witness ==
    /\ req.op = "update_profile"
    /\ resp.status = 200
    /\ req.user_id \in Live(users)
    /\ req.user_id # profiles[req.id].user_id

\* C11: when every request excludes the others from its checks to its write,
\* no reachable state has two live users with the same email or phone, two
\* live profiles with the same username, or two live profiles of one user;
\* such states are reached only when the checks and the write of two
\* concurrent requests interleave.
C11_DuplicatesOnlyByInterleaving ==
    exclusive =>
        /\ \A i, j \in Live(users) :
              i # j => /\ Lower(users[i].email) # Lower(users[j].email)
                       /\ users[i].phone # users[j].phone
        /\ \A p, q \in Live(profiles) :
              p # q => /\ Lower(profiles[p].username) # Lower(profiles[q].username)
                       /\ profiles[p].user_id # profiles[q].user_id

\* without exclusion two create_user requests and two create_profile
\* requests have each passed their checks before either wrote: two live
\* users share email and phone, and two live profiles share owner and
\* username
C11_Witness ==
    /\ ~exclusive
    /\ \E i, j \in Live(users) :
          /\ i # j
          /\ Lower(users[i].email) = Lower(users[j].email)
          /\ users[i].phone = users[j].phone
    /\ \E p, q \in Live(profiles) :
          /\ p # q
          /\ Lower(profiles[p].username) = Lower(profiles[q].username)
          /\ profiles[p].user_id = profiles[q].user_id

\* the same stores and the same request under other passwords: every stored
\* password and every password in a request body is replaced by another one
OtherPassword(p) == CHOOSE q \in Passwords : q # p

WithOtherSecrets(db) ==
    [db EXCEPT !.user_secrets =
        [k \in DOMAIN @ |-> [password |-> OtherPassword(@[k].password)]]]

WithOtherPassword(body) ==
    [f \in DOMAIN body |->
        IF f \in {"password", "new_password"} THEN OtherPassword(body[f]) ELSE body[f]]

\* two results that differ in the stored passwords at most
SameButSecrets(r1, r2) ==
    /\ r1.resp = r2.resp
    /\ r1.db.users = r2.db.users
    /\ r1.db.profiles = r2.db.profiles
    /\ r1.db.profiles_by_user = r2.db.profiles_by_user
    /\ DOMAIN r1.db.user_secrets = DOMAIN r2.db.user_secrets

PasswordUserCreates == {c \in UserCreates : c.name = "Ann" /\ c.membership_tier = "FREE"}

PasswordUserPatches ==
    UNION {DictsOver(S, UserValues) : S \in SUBSET {"email", "phone", "new_password"}}

C13_NotFoundFirst ==
    [](
        /\ \A user_id \in UserIds \ Live(users) :
              /\ get_user(Db, user_id).resp = Response(404, "User not found", <<>>)
              /\ delete_user(Db, user_id).resp = Response(404, "User not found", <<>>)
              /\ update_user(Db, user_id, EmptyDict).resp.status = 404
              /\ \A k \in Live(users) :
                    \A body \in {[email |-> users[k].email],
                                 [phone |-> users[k].phone],
                                 [email |-> users[k].email, phone |-> users[k].phone]} :
                        update_user(Db, user_id, body).resp =
                            Response(404, "User not found", <<>>)
        /\ \A profile_id \in ProfileIds \ Live(profiles) :
              /\ get_profile(Db, profile_id).resp = Response(404, "Profile not found", <<>>)
              /\ delete_profile(Db, profile_id).resp = Response(404, "Profile not found", <<>>)
              /\ update_profile(Db, profile_id, EmptyDict).resp.status = 404
              /\ \A k \in Live(profiles) :
                    update_profile(Db, profile_id, [username |-> profiles[k].username]).resp =
                        Response(404, "Profile not found", <<>>)
    )

\* an update of a user id that is not live has just been answered 404 while
\* another user is live, and a profile is live while a profile id is not
C13_Witness ==
    /\ req.op = "update_user"
    /\ resp = Response(404, "User not found", <<>>)
    /\ req.id \notin Live(users)
    /\ Live(users) # {}
    /\ Live(profiles) # {}
    /\ ProfileIds \ Live(profiles) # {}

\* C14: an update is rejected with 400 exactly when a different live record
\* holds a value it carries: update_user when another live user has the
\* patch's email (compared in lower case) or its phone, update_profile when
\* another live profile has the patch's username (compared in lower case).
\* So a patch that carries the record's own email or username in any letter
\* case, or its own phone, succeeds.
C14_UpdateExcludesOwnRecord ==
    [](
        /\ \A user_id \in Live(users) :
              /\ \A body \in UNION {DictsOver(S, UserValues) : S \in SUBSET {"email", "phone"}} :
                    update_user(Db, user_id, body).resp.status = 400
                        <=> \E k \in Live(users) \ {user_id} :
                                \/ /\ "email" \in DOMAIN body
                                   /\ Lower(users[k].email) = Lower(body.email)
                                \/ /\ "phone" \in DOMAIN body
                                   /\ users[k].phone = body.phone
              /\ \A email \in Emails :
                    Lower(email) = Lower(users[user_id].email) =>
                        update_user(Db, user_id,
                                    [email |-> email, phone |-> users[user_id].phone]
                                   ).resp.status = 200
        /\ \A profile_id \in Live(profiles) :
              /\ \A username \in Usernames :
                    update_profile(Db, profile_id, [username |-> username]).resp.status = 400
                        <=> \E k \in Live(profiles) \ {profile_id} :
                                Lower(profiles[k].username) = Lower(username)
              /\ \A username \in Usernames :
                    Lower(username) = Lower(profiles[profile_id].username) =>
                        update_profile(Db, profile_id, [username |-> username]
                                      ).resp.status = 200
    )

\* two users and two profiles are live, and an update of a user has just
\* succeeded: each record's own values are held by no other record, the
\* other record's values are
C14_Witness ==
    /\ Cardinality(Live(users)) = 2
    /\ Cardinality(Live(profiles)) = 2
    /\ req.op = "update_user"
    /\ resp.status = 200

\* C15: when delete_profile succeeds, the profile is no longer in
\* `profiles` and its owner no longer in `profiles_by_user`; no live profile
\* has the deleted profile's username, and if the owner is still a live
\* user, a create_profile for that owner succeeds with every username that
\* no live profile has, the deleted profile's among them.
C15_DeleteProfileFreesOwnerAndUsername ==
    [][(req'.op = "delete_profile" /\ resp'.status = 204) =>
          LET prof == profiles[req'.id] IN
          /\ req'.id \notin DOMAIN profiles'
          /\ prof.user_id \notin DOMAIN profiles_by_user'
          /\ \A k \in DOMAIN profiles' :
                Lower(profiles'[k].username) # Lower(prof.username)
          /\ prof.user_id \in DOMAIN users' =>
                \A username \in Usernames :
                    (\/ Lower(username) = Lower(prof.username)
                     \/ \A k \in DOMAIN profiles' :
                           Lower(profiles'[k].username) # Lower(username))
                    => create_profile(Db',
                                      [user_id |-> prof.user_id, username |-> username,
                                       display_name |-> "d1"],
                                      issued_profiles' + 1, Now(issued_profiles')
                                     ).resp.status = 201]_vars

\* the profile of the only user ever created has just been deleted, and the
\* user is still live
C15_Witness ==
    /\ req.op = "delete_profile"
    /\ resp.status = 204
    /\ issued_users = 1
    /\ Live(users) = {1}
    /\ Live(profiles) = {}

\* C16: when delete_user succeeds, a create_user that carries the deleted
\* user's email (in any letter case) or phone succeeds if none of the other
\* users live before the deletion holds the email or the phone it carries,
\* and an update_user of another live user to the deleted user's email or
\* phone succeeds if no third live user holds that value.
C16_DeletedValuesAreFree ==
    [][(req'.op = "delete_user" /\ resp'.status = 204) =>
          LET old == users[req'.id]
              others == Live(users) \ {req'.id}
          IN
          /\ \A payload \in PasswordUserCreates :
                (/\ \/ Lower(payload.email) = Lower(old.email)
                    \/ payload.phone = old.phone
                 /\ \A k \in others :
                       /\ Lower(users[k].email) # Lower(payload.email)
                       /\ users[k].phone # payload.phone)
                => create_user(Db', payload, issued_users' + 1, Now(issued_users')
                              ).resp.status = 201
          /\ \A other \in others :
                /\ (\A k \in others \ {other} :
                       Lower(users[k].email) # Lower(old.email))
                   => update_user(Db', other, [email |-> old.email]).resp.status = 200
                /\ (\A k \in others \ {other} : users[k].phone # old.phone)
                   => update_user(Db', other, [phone |-> old.phone]).resp.status = 200
         ]_vars

\* one of two users has just been deleted and the other is live
C16_Witness ==
    /\ req.op = "delete_user"
    /\ resp.status = 204
    /\ issued_users = 2
    /\ Cardinality(Live(users)) = 1
    /\ req.id \notin Live(users)

\* C17: update_user answers 200, 400 or 404; when it answers 200 and the
\* patch carries new_password, `user_secrets` afterwards maps the updated
\* user to the new password and every other user to the secret it had; in
\* every other case (200 without new_password, 400 or 404 with or without
\* it) `user_secrets` is unchanged.
C17_SecretReplacedOnlyOnSuccess ==
    [](
        \A user_id \in UserIds :
            \A body \in PasswordUserPatches :
                LET r == update_user(Db, user_id, body) IN
                /\ r.resp.status \in {200, 400, 404}
                /\ IF r.resp.status = 200 /\ "new_password" \in DOMAIN body
                   THEN /\ DOMAIN r.db.user_secrets = DOMAIN user_secrets \cup {user_id}
                        /\ r.db.user_secrets[user_id] = [password |-> body.new_password]
                        /\ \A k \in DOMAIN user_secrets \ {user_id} :
                              r.db.user_secrets[k] = user_secrets[k]
                   ELSE r.db.user_secrets = user_secrets
    )

\* two users with different passwords are live and an update of one of
\* them has just been rejected with 400
C17_Witness ==
    /\ \E i, j \in Live(users) : user_secrets[i].password # user_secrets[j].password
    /\ req.op = "update_user"
    /\ resp.status = 400

\* a record satisfies a filter set when it has the value of every filter
\* that is present; the fields in `folded` are compared in lower case
Matches(record, filters, folded) ==
    \A f \in DOMAIN filters :
        IF f \in folded THEN Lower(record[f]) = Lower(filters[f])
        ELSE record[f] = filters[f]

\* the sequence `body` lists each record of the set once and nothing else
ListsExactly(body, records) ==
    /\ {body[i] : i \in 1..Len(body)} = records
    /\ Len(body) = Cardinality(records)

AllUserFilters ==
    UNION {DictsOver(S, UserValues) :
              S \in SUBSET {"name", "email", "phone", "membership_tier"}}

AllProfileFilters ==
    UNION {DictsOver(S, ProfileValues) : S \in SUBSET {"user_id", "username"}}

\* C18: for every combination of filters, list_users answers 200 with each
\* live user once that has the name, phone and membership_tier of the
\* filters present and, compared in lower case, the email; list_profiles
\* answers 200 with each live profile once that has the user_id and,
\* compared in lower case, the username of the filters present; both leave
\* the four stores as they are.  Stated for the stores a list request has
\* just been answered from: a list request can be made of any stores and
\* leaves them as they are, so these are all the reachable stores.
C18_ListsReturnExactlyTheMatches ==
    [](
        req.op \in {"list_users", "list_profiles"} =>
        /\ \A filters \in AllUserFilters :
              LET r == list_users(Db, filters) IN
              /\ r.db = Db
              /\ r.resp.status = 200
              /\ ListsExactly(r.resp.body,
                              {users[k] : k \in {i \in Live(users) :
                                                    Matches(users[i], filters, {"email"})}})
        /\ \A filters \in AllProfileFilters :
              LET r == list_profiles(Db, filters) IN
              /\ r.db = Db
              /\ r.resp.status = 200
              /\ ListsExactly(r.resp.body,
                              {profiles[k] : k \in {i \in Live(profiles) :
                                                       Matches(profiles[i], filters, {"username"})}})
    )

\* a list_users request has just been answered with one of two live users,
\* and two profiles are live
C18_Witness ==
    /\ req.op = "list_users"
    /\ resp.status = 200
    /\ Len(resp.body) = 1
    /\ Cardinality(Live(users)) = 2
    /\ Cardinality(Live(profiles)) = 2

\* C19: in every reachable state `user_secrets` and `users` have the same
\* keys, and each secret record is a password and nothing else: a user that
\* was never created or has been deleted has no secret record.
C19_SecretsMatchUsers ==
    /\ DOMAIN user_secrets = DOMAIN users
    /\ \A k \in DOMAIN user_secrets : DOMAIN user_secrets[k] = {"password"}
    /\ \A k \in deleted \cup (UserIds \ (1..issued_users)) : k \notin DOMAIN user_secrets

\* one user has been deleted, another is live, and the live user's password
\* has just been replaced by an update
C19_Witness ==
    /\ deleted # {}
    /\ Live(users) # {}
    /\ req.op = "update_user"
    /\ resp.status = 200
    /\ user_secrets[req.id].password = "pw2"

\* C20: in every state reachable by create_profile, update_profile,
\* delete_profile and delete_user requests (and the other requests of the
\* service), profiles_by_user maps u to p exactly when `profiles` holds a
\* profile with id p and user_id u: no entry points to a missing profile
\* and every live profile has its owner's entry.
C20_IndexAgreesWithProfiles ==
    \A u \in UserIds, p \in ProfileIds :
        (u \in DOMAIN profiles_by_user /\ profiles_by_user[u] = p)
            <=> (p \in DOMAIN profiles /\ profiles[p].user_id = u)

\* a user that owned a profile has been deleted, a second profile has been
\* created and deleted, and the last request updated the first profile
C20_Witness ==
    /\ deleted # {}
    /\ \E u \in deleted : u \in DOMAIN profiles_by_user
    /\ issued_profiles = 2
    /\ Cardinality(Live(profiles)) = 1
    /\ req.op = "update_profile"
    /\ resp.status = 200

====
